---- MODULE Spec2Model ----
(***************************************************************************)
(* Chars (protobuf/src/chars.rs): a wrapper around bytes::Bytes whose      *)
(* bytes are valid UTF-8.  The module models the handles of Bytes (vtable  *)
(* kind, pointer, length), the reference-counted storage behind them, the  *)
(* UTF-8 validation done by str::from_utf8, and every operation of Chars.  *)
(* Bytes are integers 0..255; a str or String is the sequence of its       *)
(* bytes.                                                                  *)
(***************************************************************************)
EXTENDS Integers, Sequences, FiniteSets, TLC

\* ------------------------------------------------------------------ bounds
\* Longest byte buffer / string handed to a constructor.
MaxLen == 4
\* Number of variables of type Chars the client program holds.
NViews == 3
\* Number of heap allocations that can be live at once.
MaxAllocs == 2

\* ------------------------------------------------- UTF-8, as Unicode defines it
\* A continuation byte, 10xxxxxx.
IsCont(b) == b \div 64 = 2

\* The scalar value a chunk of 1..4 bytes decodes to by its bit pattern, or -1
\* when the lead/continuation pattern does not fit the chunk's length.
DecodeChunk(c) ==
    CASE Len(c) = 1 /\ c[1] < 128 -> c[1]
      [] Len(c) = 2 /\ c[1] \div 32 = 6 /\ IsCont(c[2]) ->
            (c[1] % 32) * 64 + (c[2] % 64)
      [] Len(c) = 3 /\ c[1] \div 16 = 14 /\ IsCont(c[2]) /\ IsCont(c[3]) ->
            (c[1] % 16) * 4096 + (c[2] % 64) * 64 + (c[3] % 64)
      [] Len(c) = 4 /\ c[1] \div 8 = 30 /\ IsCont(c[2]) /\ IsCont(c[3]) /\ IsCont(c[4]) ->
            (c[1] % 8) * 262144 + (c[2] % 64) * 4096 + (c[3] % 64) * 64 + (c[4] % 64)
      [] OTHER -> -1

\* Number of bytes of the shortest UTF-8 form of a code point.
EncodedLen(cp) ==
    IF cp < 128 THEN 1 ELSE IF cp < 2048 THEN 2 ELSE IF cp < 65536 THEN 3 ELSE 4

\* A Unicode scalar value: a code point that is not a surrogate.
IsScalarValue(cp) == cp >= 0 /\ cp <= 1114111 /\ ~(cp >= 55296 /\ cp <= 57343)

\* The chunk is the (shortest-form) encoding of one Unicode scalar value.
IsEncodedScalar(c) ==
    LET cp == DecodeChunk(c) IN IsScalarValue(cp) /\ EncodedLen(cp) = Len(c)

Min(a, b) == IF a < b THEN a ELSE b

\* The byte sequence is a concatenation of encoded scalar values.
RECURSIVE WellFormedUtf8(_)
WellFormedUtf8(b) ==
    \/ b = <<>>
    \/ \E k \in 1..Min(4, Len(b)) :
          /\ IsEncodedScalar(SubSeq(b, 1, k))
          /\ WellFormedUtf8(SubSeq(b, k + 1, Len(b)))

\* Length of the longest prefix of b that is well-formed: the offset at which
\* the first ill-formed (or truncated) sequence of b starts.
LongestValidPrefix(b) ==
    CHOOSE k \in 0..Len(b) :
        /\ WellFormedUtf8(SubSeq(b, 1, k))
        /\ \A m \in (k + 1)..Len(b) : ~WellFormedUtf8(SubSeq(b, 1, m))

\* ------------------------------------------- str::from_utf8 (core::str::validations)
\* Mutant of Utf8CharWidth: the table without the four-byte lead bytes.
Utf8CharWidth_no4(b) ==
    IF b < 128 THEN 1
    ELSE IF b >= 194 /\ b <= 223 THEN 2
    ELSE IF b >= 224 /\ b <= 239 THEN 3
    ELSE 0

\* utf8_char_width: the UTF8_CHAR_WIDTH table.
Utf8CharWidth(b) ==
    IF b < 128 THEN 1
    ELSE IF b >= 194 /\ b <= 223 THEN 2
    ELSE IF b >= 224 /\ b <= 239 THEN 3
    ELSE IF b >= 240 /\ b <= 244 THEN 4
    ELSE 0

\* `x as i8 >= -64`: the byte is not a continuation byte.
NotContByte(b) == ~(b >= 128 /\ b <= 191)

\* The second byte of a three-byte sequence fits its lead byte.
Second3Ok(first, second) ==
    \/ first = 224 /\ second >= 160 /\ second <= 191
    \/ first >= 225 /\ first <= 236 /\ second >= 128 /\ second <= 191
    \/ first = 237 /\ second >= 128 /\ second <= 159
    \/ first >= 238 /\ first <= 239 /\ second >= 128 /\ second <= 191

\* The second byte of a four-byte sequence fits its lead byte.
Second4Ok(first, second) ==
    \/ first = 240 /\ second >= 144 /\ second <= 191
    \/ first >= 241 /\ first <= 243 /\ second >= 128 /\ second <= 191
    \/ first = 244 /\ second >= 128 /\ second <= 143

Utf8Ok == [ok |-> TRUE]
\* Utf8Error { valid_up_to, .. }
\* Mutant of Utf8Err: the offset of the byte after the sequence's first.
Utf8Err_next(valid_up_to) == [ok |-> FALSE, valid_up_to |-> valid_up_to + 1]
Utf8Err(valid_up_to) == [ok |-> FALSE, valid_up_to |-> valid_up_to]

\* run_utf8_validation from byte offset `index` (0-based, as in the code):
\* v[index + 1] is the code's v[index].  next!() fails with the offset of the
\* sequence's first byte when the input ends inside the sequence.
RECURSIVE RunUtf8Validation(_, _)
RunUtf8Validation(v, index) ==
    IF index >= Len(v) THEN Utf8Ok
    ELSE
      LET first == v[index + 1]
          w     == Utf8CharWidth(first)
          has(n) == index + n < Len(v)
          at(n)  == v[index + n + 1]
          err    == Utf8Err(index)
      IN  IF first < 128 THEN RunUtf8Validation(v, index + 1)
          ELSE IF w = 2 THEN
                 IF ~has(1) \/ NotContByte(at(1)) THEN err
                 ELSE RunUtf8Validation(v, index + 2)
          ELSE IF w = 3 THEN
                 IF ~has(1) \/ ~Second3Ok(first, at(1)) THEN err
                 ELSE IF ~has(2) \/ NotContByte(at(2)) THEN err
                 ELSE RunUtf8Validation(v, index + 3)
          ELSE IF w = 4 THEN
                 IF ~has(1) \/ ~Second4Ok(first, at(1)) THEN err
                 ELSE IF ~has(2) \/ NotContByte(at(2)) THEN err
                 ELSE IF ~has(3) \/ NotContByte(at(3)) THEN err
                 ELSE RunUtf8Validation(v, index + 4)
          ELSE err

\* Mutant of FromUtf8: the bytes are taken on trust.
FromUtf8_unchecked(v) == Utf8Ok

\* str::from_utf8(&bytes)
FromUtf8(v) == RunUtf8Validation(v, 0)


\* ------------------------------------------------------ inputs of the model

RECURSIVE SeqsUpTo(_, _)
SeqsUpTo(S, n) ==
    IF n = 0 THEN {<<>>}
    ELSE LET P == SeqsUpTo(S, n - 1) IN P \cup {Append(s, x) : s \in P, x \in S}

\* The byte buffers a caller hands to from_bytes: nothing, '"', U+00E9 as
\* 0xC3 0xA9, and two ill-formed buffers (a truncated sequence, a stray
\* continuation byte after a character).
BytesIn == {<<>>, <<34>>, <<195, 169>>, <<195>>, <<34, 169>>}
\* Every value of type str / String: the type guarantees well-formed UTF-8.
Strs == {b \in BytesIn : WellFormedUtf8(b)}

\* Bytes of the buffers the single-value specification draws: ASCII ('\n',
\* '"', 'a'), continuation bytes (0x80, 0x90, 0xA0), lead bytes of two, three
\* and four byte sequences (0xC3, 0xE0, 0xED, 0xF0, 0xF4) and 0xFF.
Alphabet == {10, 34, 97, 128, 144, 160, 195, 224, 237, 240, 244, 255}
\* "test", "caf\u{e9}" and the buffer 63 61 FF 66 65.
Scenarios == {<<116, 101, 115, 116>>, <<99, 97, 102, 195, 169>>, <<99, 97, 255, 102, 101>>}
AllBytes == SeqsUpTo(Alphabet, MaxLen) \cup Scenarios
AllStrs == {b \in AllBytes : WellFormedUtf8(b)}

Allocs == 1..MaxAllocs

\* ---------------------------------------------------------------- the state
VARIABLES
    views,    \* the Bytes handles inside the Chars values the program holds, oldest first
    heap,     \* heap[a]: the bytes and the reference count of allocation a
    text,     \* text[i]: the text views[i] was built from or cloned with, empty once it is cleared
    result    \* the Result or String the last call returned, NoResult for any other call

vars == <<views, heap, text, result>>

\* An allocation that is not in use.
Free == [bytes |-> <<>>, rc |-> 0]
NoResult == [op |-> "none"]

\* The Chars values that exist.
Slots == 1..Len(views)
\* The handle counts as a reference to a heap allocation.
HoldsRef(x) == x.vt \in {"promotable", "shared"}

\* The sequence without its i-th element.
Remove(s, i) == SubSeq(s, 1, i - 1) \o SubSeq(s, i + 1, Len(s))

\* ------------------------------------------------------------- bytes::Bytes
\* A handle is a vtable kind, a pointer and a length.  "static" handles point
\* at a literal (lit) and own nothing; "promotable" handles (a Vec whose
\* capacity is its length) and "shared" handles (any other Vec, or a frozen
\* BytesMut) point at allocation ptr of the heap and count as a reference.
\* Bytes::new(): the empty buffer, STATIC_VTABLE, no allocation.
Bytes_new == [vt |-> "static", ptr |-> 0, lit |-> <<>>, len |-> 0]

\* Bytes::from_static(s): STATIC_VTABLE over the literal's own storage.
Bytes_from_static(s) == [vt |-> "static", ptr |-> 0, lit |-> s, len |-> Len(s)]

\* The allocation the next heap buffer gets.
NextAlloc(h) == CHOOSE a \in Allocs : h[a].rc = 0 /\ \A c \in Allocs : c < a => h[c].rc > 0
CanAlloc(h) == \E a \in Allocs : h[a].rc = 0

\* Mutant of HeapBytes: the length counts characters, not bytes.
HeapBytes_charlen(h, b, vt) ==
    [vt |-> vt, ptr |-> NextAlloc(h), lit |-> <<>>,
     len |-> Cardinality({k \in 1..Len(b) : ~IsCont(b[k])})]

\* A heap buffer holding a copy of b, of vtable kind vt, with one handle on it.
HeapBytes(h, b, vt) == [vt |-> vt, ptr |-> NextAlloc(h), lit |-> <<>>, len |-> Len(b)]
HeapAfterAlloc(h, b) == [h EXCEPT ![NextAlloc(h)] = [bytes |-> b, rc |-> 1]]

\* <Bytes as Deref>::deref / as_slice: the len bytes the handle points at.
Bytes_as_slice(x, h) ==
    IF x.vt = "static" THEN SubSeq(x.lit, 1, x.len)
    ELSE SubSeq(h[x.ptr].bytes, 1, x.len)

Bytes_len(x) == x.len
Bytes_is_empty(x) == x.len = 0

\* <Bytes as Clone>::clone: the handle is copied; a heap buffer gains a reference.
HeapAfterClone(x, h) ==
    IF HoldsRef(x) THEN [h EXCEPT ![x.ptr].rc = @ + 1] ELSE h

\* <Bytes as Drop>::drop: a heap buffer loses a reference and is released with its last one.
HeapAfterDrop(x, h) ==
    IF ~HoldsRef(x) THEN h
    ELSE IF h[x.ptr].rc = 1 THEN [h EXCEPT ![x.ptr] = Free]
    ELSE [h EXCEPT ![x.ptr].rc = @ - 1]

\* Mutant of Bytes_clear: only heap buffers are truncated.
Bytes_clear_heapOnly(x) ==
    IF x.vt = "promotable" THEN [vt |-> "static", ptr |-> 0, lit |-> <<>>, len |-> 0]
    ELSE IF x.vt = "shared" THEN [x EXCEPT !.len = 0]
    ELSE x

\* Bytes::clear() is truncate(0).  Nothing happens to an empty handle.  A
\* promotable handle is replaced by an empty static one (split_off(0)) and the
\* handle it held is dropped; any other handle only has its len set to 0 and
\* keeps pointing at (and counting as a reference to) its storage.
Bytes_clear(x) ==
    IF x.len = 0 THEN x
    ELSE IF x.vt = "promotable" THEN Bytes_new
    ELSE [x EXCEPT !.len = 0]

\* Mutant of HeapAfterClear: the storage is wiped in place.
HeapAfterClear_zeroing(x, h) ==
    LET z == IF HoldsRef(x) THEN [h EXCEPT ![x.ptr].bytes = [k \in 1..Len(@) |-> 0]] ELSE h
    IN  IF x.len > 0 /\ x.vt = "promotable" THEN HeapAfterDrop(x, z) ELSE z

\* Mutant of HeapAfterClear: the reference is given up whatever the vtable.
HeapAfterClear_release(x, h) ==
    IF x.len > 0 THEN HeapAfterDrop(x, h) ELSE h

HeapAfterClear(x, h) ==
    IF x.len > 0 /\ x.vt = "promotable" THEN HeapAfterDrop(x, h) ELSE h

\* Mutant of Bytes_eq: the handles are compared, not the bytes.
Bytes_eq_handle(x, y, h) == x = y

\* <Bytes as PartialEq>::eq compares the slices.
Bytes_eq(x, y, h) == Bytes_as_slice(x, h) = Bytes_as_slice(y, h)

\* <Bytes as Hash>::hash is <[u8] as Hash>::hash: the length, then the bytes.
Bytes_hash(x, h) ==
    << [call |-> "write_usize", data |-> <<Bytes_len(x)>>],
       [call |-> "write", data |-> Bytes_as_slice(x, h)] >>

\* ----------------------------------------------------------- str and String
\* <str as Hash>::hash: the bytes, then 0xFF.
str_hash(s) ==
    << [call |-> "write", data |-> s],
       [call |-> "write_u8", data |-> <<255>>] >>

\* <str as Display>::fmt with a plain "{}": the text itself.
str_Display(s) == s

RECURSIVE HexDigits(_)
HexDigits(n) ==
    LET d == n % 16
        c == IF d < 10 THEN 48 + d ELSE 87 + d
    IN  IF n < 16 THEN <<c>> ELSE Append(HexDigits(n \div 16), c)

\* char::escape_debug as <str as Debug>::fmt uses it, for the character whose
\* encoding is chunk c.  ASCII is exact; beyond ASCII every character but the
\* C1 controls is taken to be printable.
EscapeDebug(c) ==
    LET cp == DecodeChunk(c) IN
    CASE cp = 0  -> <<92, 48>>
      [] cp = 9  -> <<92, 116>>
      [] cp = 10 -> <<92, 110>>
      [] cp = 13 -> <<92, 114>>
      [] cp = 34 -> <<92, 34>>
      [] cp = 92 -> <<92, 92>>
      [] cp < 32 \/ (cp >= 127 /\ cp < 160) -> <<92, 117, 123>> \o HexDigits(cp) \o <<125>>
      [] OTHER -> c

RECURSIVE EscapeAll(_)
EscapeAll(s) ==
    IF s = <<>> THEN <<>>
    ELSE LET w == Utf8CharWidth(s[1])
         IN  EscapeDebug(SubSeq(s, 1, w)) \o EscapeAll(SubSeq(s, w + 1, Len(s)))

\* <str as Debug>::fmt: the escaped text between double quotes.
str_Debug(s) == <<34>> \o EscapeAll(s) \o <<34>>

\* ------------------------------------------------------------------- Chars
\* <Chars as Deref>::deref: str::from_utf8_unchecked(&self.0), the bytes as they are.
Chars_deref(x, h) == Bytes_as_slice(x, h)
\* <Chars as Borrow<str>>::borrow
Chars_borrow(x, h) == Chars_deref(x, h)
Chars_len(x) == Bytes_len(x)
Chars_is_empty(x) == Bytes_is_empty(x)
\* derive(PartialEq)
Chars_eq(x, y, h) == Bytes_eq(x, y, h)
\* derive(Hash)
Chars_hash(x, h) == Bytes_hash(x, h)
\* <Chars as PartialEq<&str>>::eq
Chars_eq_str(x, s, h) == Chars_deref(x, h) = s
Chars_Display(x, h) == str_Display(Chars_deref(x, h))
\* Mutant of Chars_Debug: Debug delegates to Display.
Chars_Debug_asDisplay(x, h) == str_Display(Chars_deref(x, h))
Chars_Debug(x, h) == str_Debug(Chars_deref(x, h))
\* Mutant of Chars_into: the copy stops one byte short.
Chars_into_short(x, h) == SubSeq(Bytes_as_slice(x, h), 1, x.len - 1)
\* <Chars as Into<String>>::into: a copy of the bytes, unchecked.
Chars_into(x, h) == Bytes_as_slice(x, h)

\* A new Chars is bound to a variable: x is its handle, h the heap it leaves.
Bind(x, h, s, res) ==
    /\ Len(views) < NViews
    /\ views' = Append(views, x)
    /\ heap' = h
    /\ text' = Append(text, s)
    /\ result' = res

\* Chars::new()
new ==
    Bind(Bytes_new, heap, <<>>, NoResult)

\* <Chars as Default>::default()
default ==
    Bind(Bytes_new, heap, <<>>, NoResult)

\* The Bytes a caller hands to from_bytes: static, or on the heap as a
\* promotable (Vec-backed; an empty Vec gives Bytes::new()) or shared buffer.
ArgBytes(b, vt, h) ==
    IF vt = "static" THEN Bytes_from_static(b)
    ELSE IF vt = "promotable" /\ b = <<>> THEN Bytes_new
    ELSE HeapBytes(h, b, vt)

ArgHeap(b, vt, h) ==
    IF HoldsRef(ArgBytes(b, vt, h)) THEN HeapAfterAlloc(h, b) ELSE h

\* Chars::from_bytes(bytes): on an error the argument is dropped and no Chars is made.
from_bytes(b, vt) ==
    /\ vt = "static" \/ CanAlloc(heap)
    /\ LET x == ArgBytes(b, vt, heap)
           h == ArgHeap(b, vt, heap)
           r == FromUtf8(Bytes_as_slice(x, h))
       IN  IF r.ok
           THEN Bind(x, h, b, [op |-> "from_bytes", ok |-> TRUE, arg |-> b])
           ELSE /\ result' = [op |-> "from_bytes", ok |-> FALSE, arg |-> b,
                              valid_up_to |-> r.valid_up_to]
                /\ heap' = HeapAfterDrop(x, h)
                /\ UNCHANGED <<views, text>>

\* Chars::from_static(s)
from_static(s) ==
    Bind(Bytes_from_static(s), heap, s, NoResult)

\* <Chars as From<&str>>::from: Bytes::copy_from_slice, a Vec of exactly the bytes.
from_str(s) ==
    /\ CanAlloc(heap)
    /\ Bind(ArgBytes(s, "promotable", heap), ArgHeap(s, "promotable", heap), s, NoResult)

\* <Chars as From<String>>::from: Bytes::from(Vec<u8>) takes the String's
\* buffer over; it is promotable when the capacity equals the length (exact)
\* and shared otherwise.
from_String(s, exact) ==
    /\ CanAlloc(heap)
    /\ LET vt == IF exact THEN "promotable" ELSE "shared"
       IN  Bind(ArgBytes(s, vt, heap), ArgHeap(s, vt, heap), s, NoResult)

\* derive(Clone): a clone of views[i].
clone(i) ==
    /\ i \in Slots
    /\ Bind(views[i], HeapAfterClone(views[i], heap), text[i], NoResult)

\* Chars::clear(): self.0.clear()
clear(i) ==
    /\ i \in Slots
    /\ views' = [views EXCEPT ![i] = Bytes_clear(views[i])]
    /\ heap' = HeapAfterClear(views[i], heap)
    /\ text' = [text EXCEPT ![i] = <<>>]
    /\ result' = NoResult

\* views[i] goes out of scope: the Bytes inside is dropped.
drop(i) ==
    /\ i \in Slots
    /\ views' = Remove(views, i)
    /\ heap' = HeapAfterDrop(views[i], heap)
    /\ text' = Remove(text, i)
    /\ result' = NoResult

\* <Chars as Into<String>>::into consumes views[i] and returns a String.
into(i) ==
    /\ i \in Slots
    /\ views' = Remove(views, i)
    /\ heap' = HeapAfterDrop(views[i], heap)
    /\ text' = Remove(text, i)
    /\ result' = [op |-> "into", out |-> Chars_into(views[i], heap)]

\* ------------------------------------------------------ the specification
Init ==
    /\ views = <<>>
    /\ heap = [a \in Allocs |-> Free]
    /\ text = <<>>
    /\ result = NoResult

Next ==
    \/ new
    \/ default
    \/ \E b \in BytesIn, vt \in {"static", "promotable", "shared"} : from_bytes(b, vt)
    \/ \E s \in Strs : from_static(s)
    \/ \E s \in Strs : from_str(s)
    \/ \E s \in Strs, exact \in BOOLEAN : from_String(s, exact)
    \/ \E i \in 1..NViews : clone(i)
    \/ \E i \in 1..NViews : clear(i)
    \/ \E i \in 1..NViews : drop(i)
    \/ \E i \in 1..NViews : into(i)

Spec == Init /\ [][Next]_vars

\* One Chars at a time, built from any buffer or string over Alphabet.
Fresh == views = <<>> /\ result = NoResult

NextText ==
    \/ Fresh /\ \E b \in AllBytes, vt \in {"static", "promotable", "shared"} : from_bytes(b, vt)
    \/ Fresh /\ \E s \in AllStrs : from_static(s)
    \/ Fresh /\ \E s \in AllStrs : from_str(s)
    \/ Fresh /\ \E s \in AllStrs, exact \in BOOLEAN : from_String(s, exact)
    \/ clear(1)
    \/ drop(1)
    \/ into(1)

SpecText == Init /\ [][NextText]_vars

\* ------------------------------------------------------------- properties
\* The reference count of every allocation is the number of handles on it.
RefCountOk ==
    \A a \in Allocs :
        heap[a].rc = Cardinality({i \in Slots : HoldsRef(views[i]) /\ views[i].ptr = a})

\* C1: whatever safe operations have run, the bytes of every Chars are
\* well-formed UTF-8, and so is every String that into has returned: the
\* unchecked reinterpretations never see ill-formed bytes.
C1_AlwaysUtf8 ==
    /\ \A i \in Slots : WellFormedUtf8(Chars_deref(views[i], heap))
    /\ result.op = "into" => WellFormedUtf8(result.out)

\* C1 witness: from_bytes has just accepted a multi-byte buffer while another
\* Chars is alive.
C1_Witness ==
    /\ result.op = "from_bytes" /\ result.ok /\ result.arg = <<195, 169>>
    /\ Len(views) >= 2
    /\ Chars_deref(views[Len(views)], heap) = <<195, 169>>

\* C2: from_bytes accepts every well-formed buffer, and the Chars it returns
\* dereferences to exactly the bytes of the buffer.
C2_FromBytesAcceptsValid ==
    result.op = "from_bytes" =>
        /\ WellFormedUtf8(result.arg) => result.ok
        /\ result.ok =>
              /\ Len(views) = 1
              /\ Chars_len(views[1]) = Len(result.arg)
              /\ Chars_deref(views[1], heap) = result.arg

\* C2 witness: from_bytes returned Ok for the five bytes of "caf\u{e9}".
C2_Witness ==
    /\ result.op = "from_bytes" /\ result.ok
    /\ result.arg = <<99, 97, 102, 195, 169>>
    /\ Len(views) = 1 /\ Chars_len(views[1]) = 5

C4_ClearLeavesOthers ==
    [][\A i \in 1..NViews : clear(i) =>
          \A j \in Slots \ {i} :
              /\ views'[j] = views[j]
              /\ Chars_len(views'[j]) = Chars_len(views[j])
              /\ Chars_deref(views'[j], heap') = Chars_deref(views[j], heap)]_vars

\* C4 witness: a Chars and two clones of it; the first clone was cleared, the
\* original and the second clone still hold the text on the same storage.
C4_Witness ==
    /\ Len(views) = 3
    /\ text[2] = <<>> /\ text[1] # <<>>
    /\ HoldsRef(views[1]) /\ views[3] = views[1]
    /\ views[2].ptr = views[1].ptr /\ views[2].vt = views[1].vt /\ views[2].len = 0
    /\ Chars_deref(views[1], heap) = text[1] /\ Chars_deref(views[3], heap) = text[1]

\* C5: into returns the text the Chars was made from (by From<&str>,
\* From<String> or any other constructor), byte for byte.
C5_RoundTrip ==
    [][into(1) => (result'.op = "into" /\ result'.out = text[1])]_vars

\* C5 witness: into has returned "caf\u{e9}".
C5_Witness ==
    result.op = "into" /\ result.out = <<99, 97, 102, 195, 169>>

\* C6: Display and Debug of a Chars render as Display and Debug of the str it
\* was made from.
C6_DisplayDebug ==
    \A i \in Slots :
        /\ Chars_Display(views[i], heap) = str_Display(text[i])
        /\ Chars_Debug(views[i], heap) = str_Debug(text[i])

\* C6 witness: a Chars made (on the heap) from the str `"` followed by U+00E0
\* renders as 22 C3 A0 and, in Debug, as 22 5C 22 C3 A0 22.
C6_Witness ==
    /\ Len(views) = 1 /\ HoldsRef(views[1])
    /\ text[1] = <<34, 195, 160>>
    /\ Chars_Display(views[1], heap) = <<34, 195, 160>>
    /\ Chars_Debug(views[1], heap) = <<34, 92, 34, 195, 160, 34>>

C8_HashAsStr ==
    \A i \in Slots : Chars_hash(views[i], heap) = str_hash(Chars_borrow(views[i], heap))

\* C9: clear leaves the Chars with length 0 and empty, and a clear of a Chars
\* that is already empty (a second clear) changes nothing at all.
C9_ClearIdempotent ==
    [][\A i \in 1..NViews : clear(i) =>
          /\ Chars_len(views'[i]) = 0
          /\ Chars_is_empty(views'[i])
          /\ Chars_deref(views'[i], heap') = <<>>
          /\ Chars_len(views[i]) = 0 => (views' = views /\ heap' = heap)]_vars

\* C9 witness: a Chars that was cleared: it is empty, and its handle still
\* points at storage that holds bytes.
C9_Witness ==
    \E i \in Slots :
        /\ views[i].vt = "shared" /\ Chars_is_empty(views[i])
        /\ heap[views[i].ptr].bytes # <<>>

\* C10 as claimed: a clear of a Chars that holds bytes leaves it equal to
\* Chars::new() and no longer a reference to the storage it held: the heap is
\* what dropping the old handle makes it.
C10_ClearSwapsForEmpty ==
    [][\A i \in 1..NViews : (clear(i) /\ views[i].len > 0) =>
          /\ Chars_eq(views'[i], Bytes_new, heap')
          /\ ~HoldsRef(views'[i])
          /\ heap' = HeapAfterDrop(views[i], heap)]_vars

\* C10 amended: after clear the Chars is empty and equal to Chars::new(), and
\* no byte of any storage that is still allocated has changed.  A non-empty
\* promotable handle becomes the handle of Chars::new() and gives up its
\* reference; a shared handle keeps its pointer and its reference, with
\* length 0, so the storage lives as long as the cleared Chars does.
C10_ClearEmptiesOwnHandle ==
    [][\A i \in 1..NViews : clear(i) =>
          /\ Chars_eq(views'[i], Bytes_new, heap')
          /\ Chars_len(views'[i]) = 0
          /\ \A a \in Allocs : heap'[a].rc > 0 => heap'[a].bytes = heap[a].bytes
          /\ (views[i].vt = "promotable" /\ views[i].len > 0) =>
                (views'[i] = Bytes_new /\ heap' = HeapAfterDrop(views[i], heap))
          /\ views[i].vt = "shared" =>
                /\ heap' = heap
                /\ views'[i].vt = "shared" /\ views'[i].ptr = views[i].ptr
                /\ heap'[views[i].ptr].rc > 0]_vars

\* C10 witness: every other Chars on the storage is gone, and the cleared
\* Chars alone keeps the storage, bytes and all, allocated.
C10_Witness ==
    \E i \in Slots :
        /\ views[i].vt = "shared" /\ views[i].len = 0
        /\ heap[views[i].ptr].rc = 1
        /\ heap[views[i].ptr].bytes # <<>>
====
